---- MODULE Spec2Model ----
(***************************************************************************)
(* The target encoders of sklearn-pipeline.py (CategoricalTransformer and  *)
(* ManagerSkill) and the script's output step, as state machines.          *)
(*                                                                         *)
(* Numbers are Python floats: IEEE-754 doubles.  A double is a record      *)
(*   [nan, s, m, e]  standing for  (-1)^s * m * 2^e,                       *)
(* m a 53-bit natural (2^52 <= m < 2^53) kept as a little-endian sequence  *)
(* of 15-bit limbs, or <<>> for zero.  +, -, * and / round to nearest,     *)
(* ties to even, as the hardware does, so every value of the model is the  *)
(* value the script computes, bit for bit.                                 *)
(***************************************************************************)
EXTENDS Integers, Naturals, Sequences, FiniteSets, Bags, TLC

(***************************************************************************)
(* Natural numbers of any size (TLC's integers are 32 bits wide): little-  *)
(* endian sequences of 15-bit limbs with no leading zero limb.  The        *)
(* helpers are functions, so that TLC evaluates an argument once, when it  *)
(* applies the function.                                                   *)
(***************************************************************************)
Base == 2^15
Big == Seq(Nat)

Pow2[n \in Nat] == IF n = 0 THEN 1 ELSE 2 * Pow2[n - 1]

BigTrim[a \in Big] ==
    IF a = <<>> THEN a
    ELSE IF a[Len(a)] = 0 THEN BigTrim[SubSeq(a, 1, Len(a) - 1)] ELSE a

BigFromInt[n \in Nat] == IF n = 0 THEN <<>> ELSE <<n % Base>> \o BigFromInt[n \div Base]

Limb(a, i) == IF i <= Len(a) THEN a[i] ELSE 0

BigAddFrom[a \in Big, b \in Big, i \in Nat, c \in Nat] ==
    IF i > Len(a) /\ i > Len(b)
    THEN IF c = 0 THEN <<>> ELSE <<c>>
    ELSE <<(Limb(a, i) + Limb(b, i) + c) % Base>>
         \o BigAddFrom[a, b, i + 1, (Limb(a, i) + Limb(b, i) + c) \div Base]

BigAdd(a, b) == BigAddFrom[a, b, 1, 0]

\* a - b, for a >= b
BigSubFrom[a \in Big, b \in Big, i \in Nat, c \in Nat] ==
    IF i > Len(a) THEN <<>>
    ELSE IF a[i] - Limb(b, i) - c < 0
         THEN <<a[i] - Limb(b, i) - c + Base>> \o BigSubFrom[a, b, i + 1, 1]
         ELSE <<a[i] - Limb(b, i) - c>> \o BigSubFrom[a, b, i + 1, 0]

BigSub(a, b) == BigTrim[BigSubFrom[a, b, 1, 0]]

BigCmpFrom[a \in Big, b \in Big, i \in Nat] ==
    IF i = 0 THEN 0
    ELSE IF a[i] < b[i] THEN -1
    ELSE IF a[i] > b[i] THEN 1
    ELSE BigCmpFrom[a, b, i - 1]

\* -1, 0, 1 as a < b, a = b, a > b
BigCmp[a \in Big, b \in Big] ==
    IF Len(a) < Len(b) THEN -1
    ELSE IF Len(a) > Len(b) THEN 1
    ELSE BigCmpFrom[a, b, Len(a)]

BigMulSmallFrom[a \in Big, d \in Nat, i \in Nat, c \in Nat] ==
    IF i > Len(a)
    THEN IF c = 0 THEN <<>> ELSE <<c>>
    ELSE <<(a[i] * d + c) % Base>> \o BigMulSmallFrom[a, d, i + 1, (a[i] * d + c) \div Base]

BigMulSmall[a \in Big, d \in Nat] == IF d = 0 THEN <<>> ELSE BigMulSmallFrom[a, d, 1, 0]

BigMulFrom[a \in Big, b \in Big, j \in Nat] ==
    IF j > Len(b) THEN <<>>
    ELSE BigAdd(BigMulSmall[a, b[j]], <<0>> \o BigMulFrom[a, b, j + 1])

BigMul(a, b) == BigTrim[BigMulFrom[a, b, 1]]

\* a * 2^s
BigShl[a \in Big, s \in Nat] ==
    IF a = <<>> THEN a
    ELSE [i \in 1..(s \div 15) |-> 0] \o BigMulSmall[a, Pow2[s % 15]]

BigShrBits[a \in Big, r \in Nat] ==
    [i \in 1..Len(a) |-> (a[i] \div Pow2[r]) + (Limb(a, i + 1) % Pow2[r]) * Pow2[15 - r]]

\* a \div 2^s
BigShr[a \in Big, s \in Nat] ==
    IF s \div 15 >= Len(a) THEN <<>>
    ELSE BigTrim[BigShrBits[SubSeq(a, s \div 15 + 1, Len(a)), s % 15]]

IntBitLen[n \in Nat] == IF n = 0 THEN 0 ELSE 1 + IntBitLen[n \div 2]

BigBitLen[a \in Big] == IF a = <<>> THEN 0 ELSE 15 * (Len(a) - 1) + IntBitLen[a[Len(a)]]

BigIsOdd(a) == a # <<>> /\ a[1] % 2 = 1

\* Long division, one quotient bit per step: the bits of (r * 2^bits) \div d, most
\* significant first, and the remainder; r < d.
DivResult == [q : Seq(Nat), r : Big]

\* the next quotient bit after the ones of done
DivStep[done \in DivResult, d \in Big] ==
    IF BigCmp[BigAdd(done.r, done.r), d] >= 0
    THEN [q |-> Append(done.q, 1), r |-> BigSub(BigAdd(done.r, done.r), d)]
    ELSE [q |-> Append(done.q, 0), r |-> BigAdd(done.r, done.r)]

\* bits more steps: one half of them, then the other
BigDivFrom[done \in DivResult, d \in Big, bits \in Nat] ==
    IF bits = 0 THEN done
    ELSE IF bits = 1 THEN DivStep[done, d]
    ELSE BigDivFrom[BigDivFrom[done, d, bits \div 2], d, bits - bits \div 2]

BigDivBits[r \in Big, d \in Big, bits \in Nat] == BigDivFrom[[q |-> <<>>, r |-> r], d, bits]

BitsToInt[bs \in Seq(Nat), lo \in Nat, hi \in Nat] ==
    IF hi < lo THEN 0 ELSE 2 * BitsToInt[bs, lo, hi - 1] + bs[hi]

\* the natural whose binary digits are bs, most significant first
BigFromBits[bs \in Seq(Nat)] ==
    BigTrim[[i \in 1..((Len(bs) + 14) \div 15) |->
        BitsToInt[bs, IF Len(bs) - 15 * i + 1 < 1 THEN 1 ELSE Len(bs) - 15 * i + 1,
                      Len(bs) - 15 * (i - 1)]]]

(***************************************************************************)
(* Doubles.                                                                *)
(***************************************************************************)
Double == [nan : BOOLEAN, s : {0, 1}, m : Big, e : Int]
NaN == [nan |-> TRUE, s |-> 0, m |-> <<>>, e |-> 0]
FZero == [nan |-> FALSE, s |-> 0, m |-> <<>>, e |-> 0]

FNum(s, m, e) == [nan |-> FALSE, s |-> s, m |-> m, e |-> e]

\* q is the 53 or 54 leading bits after rounding
FRoundCarry[s \in {0, 1}, q \in Big, e \in Int] ==
    IF BigBitLen[q] = 54 THEN FNum(s, BigShr[q, 1], e + 1) ELSE FNum(s, q, e)

\* c compares the bits cut off with half a unit of q: round half to even
FRoundUp[s \in {0, 1}, q \in Big, e \in Int, c \in Int] ==
    IF c > 0 \/ (c = 0 /\ BigIsOdd(q))
    THEN FRoundCarry[s, BigAdd(q, <<1>>), e]
    ELSE FNum(s, q, e)

FRoundCut[s \in {0, 1}, n \in Big, e \in Int, sh \in Nat, q \in Big] ==
    FRoundUp[s, q, e + sh, BigCmp[BigSub(n, BigShl[q, sh]), BigShl[<<1>>, sh - 1]]]

FRoundLen[s \in {0, 1}, n \in Big, e \in Int, len \in Nat] ==
    IF len <= 53
    THEN FNum(s, BigShl[n, 53 - len], e - (53 - len))
    ELSE FRoundCut[s, n, e, len - 53, BigShr[n, len - 53]]

\* the double nearest to (-1)^s * n * 2^e, ties to even
FRound[s \in {0, 1}, n \in Big, e \in Int] ==
    IF n = <<>> THEN FZero ELSE FRoundLen[s, n, e, BigBitLen[n]]

FInt[n \in Int] == IF n >= 0 THEN FRound[0, BigFromInt[n], 0] ELSE FRound[1, BigFromInt[-n], 0]

FMul[x \in Double, y \in Double] ==
    IF x.nan \/ y.nan THEN NaN
    ELSE FRound[(x.s + y.s) % 2, BigMul(x.m, y.m), x.e + y.e]

\* the quotient's 57 or 58 leading bits, the last one set when the division is inexact
FDivBits[big \in BOOLEAN, qr \in DivResult] ==
    BigFromBits[<<IF big THEN 1 ELSE 0>> \o qr.q \o <<IF qr.r = <<>> THEN 0 ELSE 1>>]

FDiv[x \in Double, y \in Double] ==
    IF x.nan \/ y.nan \/ y.m = <<>> THEN NaN
    ELSE IF x.m = <<>> THEN FZero
    ELSE IF BigCmp[x.m, y.m] >= 0
         THEN FRound[(x.s + y.s) % 2, FDivBits[TRUE, BigDivBits[BigSub(x.m, y.m), y.m, 56]],
                     x.e - y.e - 57]
         ELSE FRound[(x.s + y.s) % 2, FDivBits[FALSE, BigDivBits[x.m, y.m, 56]],
                     x.e - y.e - 57]

FNeg(x) == IF x.nan \/ x.m = <<>> THEN x ELSE [x EXCEPT !.s = 1 - x.s]

\* (-1)^sx * a * 2^e + (-1)^sy * b * 2^e
FAddAligned[sx \in {0, 1}, a \in Big, sy \in {0, 1}, b \in Big, e \in Int] ==
    IF sx = sy THEN FRound[sx, BigAdd(a, b), e]
    ELSE IF BigCmp[a, b] = 0 THEN FZero
    ELSE IF BigCmp[a, b] > 0 THEN FRound[sx, BigSub(a, b), e]
    ELSE FRound[sy, BigSub(b, a), e]

\* an operand more than 120 bits below the other only makes the sum inexact: it
\* counts as one unit 120 bits below
FAdd[x \in Double, y \in Double] ==
    IF x.nan \/ y.nan THEN NaN
    ELSE IF x.m = <<>> THEN y
    ELSE IF y.m = <<>> THEN x
    ELSE IF x.e - y.e > 120 THEN FAddAligned[x.s, BigShl[x.m, 120], y.s, <<1>>, x.e - 120]
    ELSE IF y.e - x.e > 120 THEN FAddAligned[x.s, <<1>>, y.s, BigShl[y.m, 120], y.e - 120]
    ELSE IF x.e >= y.e THEN FAddAligned[x.s, BigShl[x.m, x.e - y.e], y.s, y.m, y.e]
    ELSE FAddAligned[x.s, x.m, y.s, BigShl[y.m, y.e - x.e], x.e]

FSub[x \in Double, y \in Double] == FAdd[x, FNeg(y)]

FOne == FInt[1]
FHalf == FDiv[FInt[1], FInt[2]]
FHundredth == FDiv[FInt[1], FInt[100]]

\* math.exp on an integer-valued float d, -64 <= d <= 64: the double nearest e^d
\* (mantissa limbs and exponent).
ExpTable ==
   <<
      <<<<25804, 26179, 10065, 203>>, -145>>,
      <<<<11986, 28231, 5293, 138>>, -143>>,
      <<<<6220, 18734, 25592, 187>>, -142>>,
      <<<<27084, 17157, 7237, 255>>, -141>>,
      <<<<22618, 13618, 14436, 173>>, -139>>,
      <<<<1357, 4021, 23926, 235>>, -138>>,
      <<<<15256, 6545, 6398, 160>>, -136>>,
      <<<<1985, 25279, 23852, 217>>, -135>>,
      <<<<24124, 12684, 31505, 147>>, -133>>,
      <<<<8308, 22735, 3292, 201>>, -132>>,
      <<<<15368, 23918, 21690, 136>>, -130>>,
      <<<<5301, 18594, 24341, 185>>, -129>>,
      <<<<22830, 18794, 14768, 252>>, -128>>,
      <<<<7521, 26229, 18285, 171>>, -126>>,
      <<<<2111, 10492, 5621, 233>>, -125>>,
      <<<<3973, 15311, 14958, 158>>, -123>>,
      <<<<16821, 23668, 11950, 215>>, -122>>,
      <<<<7130, 25449, 11648, 146>>, -120>>,
      <<<<7550, 14177, 30072, 198>>, -119>>,
      <<<<30013, 31295, 5852, 135>>, -117>>,
      <<<<18668, 15406, 23815, 183>>, -116>>,
      <<<<12094, 28648, 23284, 249>>, -115>>,
      <<<<30556, 24005, 22804, 169>>, -113>>,
      <<<<18464, 17262, 20994, 230>>, -112>>,
      <<<<6692, 4918, 24137, 156>>, -110>>,
      <<<<23352, 6118, 889, 213>>, -109>>,
      <<<<13059, 11612, 25131, 144>>, -107>>,
      <<<<24661, 16276, 24860, 196>>, -106>>,
      <<<<24676, 24507, 23310, 133>>, -104>>,
      <<<<28896, 13491, 24006, 181>>, -103>>,
      <<<<10912, 23980, 7, 247>>, -102>>,
      <<<<23976, 30958, 27985, 167>>, -100>>,
      <<<<25704, 28354, 4499, 228>>, -99>>,
      <<<<15290, 17562, 1159, 155>>, -97>>,
      <<<<32629, 1368, 23427, 210>>, -96>>,
      <<<<1184, 30167, 6410, 143>>, -94>>,
      <<<<21434, 15066, 20416, 194>>, -93>>,
      <<<<32410, 12524, 8522, 132>>, -91>>,
      <<<<32322, 19968, 24906, 179>>, -90>>,
      <<<<17198, 18623, 10462, 244>>, -89>>,
      <<<<8842, 8146, 1054, 166>>, -87>>,
      <<<<31409, 18535, 21663, 225>>, -86>>,
      <<<<32162, 32290, 11554, 153>>, -84>>,
      <<<<13292, 8635, 14019, 208>>, -83>>,
      <<<<29287, 11238, 21017, 141>>, -81>>,
      <<<<22386, 32344, 16731, 192>>, -80>>,
      <<<<8097, 6355, 27018, 130>>, -78>>,
      <<<<26781, 11956, 26508, 177>>, -77>>,
      <<<<1483, 30173, 21870, 241>>, -76>>,
      <<<<27704, 17487, 7538, 164>>, -74>>,
      <<<<5650, 31584, 6939, 223>>, -73>>,
      <<<<7576, 30512, 22548, 151>>, -71>>,
      <<<<15499, 30343, 5424, 206>>, -70>>,
      <<<<26468, 18206, 3408, 140>>, -68>>,
      <<<<31899, 27336, 13798, 190>>, -67>>,
      <<<<21594, 19020, 13256, 129>>, -65>>,
      <<<<10157, 2080, 28804, 175>>, -64>>,
      <<<<10639, 14409, 1454, 239>>, -63>>,
      <<<<21718, 25127, 14663, 162>>, -61>>,
      <<<<21366, 16410, 25855, 220>>, -60>>,
      <<<<15604, 28738, 1366, 150>>, -58>>,
      <<<<12463, 6557, 30403, 203>>, -57>>,
      <<<<460, 18303, 19114, 138>>, -55>>,
      <<<<28472, 27737, 11608, 188>>, -54>>,
      <<<<0, 0, 0, 128>>, -52>>,
      <<<<22377, 5672, 31786, 173>>, -51>>,
      <<<<23982, 29097, 14738, 236>>, -50>>,
      <<<<12550, 32479, 22422, 160>>, -48>>,
      <<<<14936, 23630, 12864, 218>>, -47>>,
      <<<<13199, 13024, 13538, 148>>, -45>>,
      <<<<16527, 11553, 23409, 201>>, -44>>,
      <<<<23978, 13661, 2593, 137>>, -42>>,
      <<<<3182, 31374, 10153, 186>>, -41>>,
      <<<<3970, 30862, 7253, 253>>, -40>>,
      <<<<1376, 7978, 2679, 172>>, -38>>,
      <<<<20351, 4572, 28946, 233>>, -37>>,
      <<<<31898, 10662, 30809, 158>>, -35>>,
      <<<<18773, 8917, 726, 216>>, -34>>,
      <<<<1495, 4478, 26289, 146>>, -32>>,
      <<<<10887, 24410, 17202, 199>>, -31>>,
      <<<<32, 8528, 19375, 135>>, -29>>,
      <<<<9465, 6173, 9426, 184>>, -28>>,
      <<<<16573, 4658, 15496, 250>>, -27>>,
      <<<<9953, 29658, 7011, 170>>, -25>>,
      <<<<26628, 5841, 11298, 231>>, -24>>,
      <<<<27901, 31549, 7047, 157>>, -22>>,
      <<<<13824, 29576, 22198, 213>>, -21>>,
      <<<<32193, 26467, 6844, 145>>, -19>>,
      <<<<24503, 27278, 11774, 197>>, -18>>,
      <<<<25289, 9234, 3918, 134>>, -16>>,
      <<<<27485, 21204, 9417, 182>>, -15>>,
      <<<<29469, 28652, 24715, 247>>, -14>>,
      <<<<14234, 28460, 12008, 168>>, -12>>,
      <<<<16470, 3171, 27321, 228>>, -11>>,
      <<<<10477, 5592, 16668, 155>>, -9>>,
      <<<<24429, 15129, 11737, 211>>, -8>>,
      <<<<26156, 6294, 20735, 143>>, -6>>,
      <<<<22402, 5348, 7117, 195>>, -5>>,
      <<<<7927, 24180, 21752, 132>>, -3>>,
      <<<<3419, 17273, 10120, 180>>, -2>>,
      <<<<3446, 17316, 2134, 245>>, -1>>,
      <<<<26, 30260, 17662, 166>>, 1>>,
      <<<<19559, 3119, 11469, 226>>, 2>>,
      <<<<9497, 9477, 26895, 153>>, 4>>,
      <<<<29419, 29426, 2100, 209>>, 5>>,
      <<<<26722, 4542, 2418, 142>>, 7>>,
      <<<<4441, 12352, 3221, 193>>, 8>>,
      <<<<14449, 31037, 7336, 131>>, 10>>,
      <<<<30770, 3494, 11527, 178>>, 11>>,
      <<<<18878, 19964, 13277, 242>>, 12>>,
      <<<<995, 30729, 23966, 164>>, 14>>,
      <<<<15222, 15729, 29268, 223>>, 15>>,
      <<<<9547, 23956, 4954, 152>>, 17>>,
      <<<<16977, 8464, 26048, 206>>, 18>>,
      <<<<2885, 18448, 17423, 140>>, 20>>,
      <<<<17505, 6690, 79, 191>>, 21>>,
      <<<<1868, 9500, 26201, 129>>, 23>>,
      <<<<18225, 24501, 13629, 176>>, 24>>,
      <<<<14907, 24111, 25366, 239>>, 25>>,
      <<<<5785, 28076, 30913, 162>>, 27>>,
      <<<<3495, 21724, 15173, 221>>, 28>>,
      <<<<24993, 32123, 16375, 150>>, 30>>,
      <<<<19305, 22495, 18034, 204>>, 31>>,
      <<<<21475, 14642, 209, 139>>, 33>>,
      <<<<15462, 15242, 30450, 188>>, 34>>,
      <<<<16535, 6796, 12804, 128>>, 36>>,
      <<<<23591, 29336, 16420, 174>>, 37>>,
      <<<<1960, 20962, 5623, 237>>, 38>>,
      <<<<6093, 23019, 5728, 161>>, 40>>
   >>

Exp(d) == [nan |-> FALSE, s |-> 0, m |-> ExpTable[d + 65][1], e |-> ExpTable[d + 65][2]]



(***************************************************************************)
(* Exact arithmetic on the numbers doubles stand for, for stating bounds:  *)
(* (-1)^s * m * 2^e with m of any size, nothing rounded.                   *)
(***************************************************************************)
XNum(s, m, e) == [s |-> s, m |-> m, e |-> e]
XInt(n) == XNum(0, BigFromInt[n], 0)
XPow2(k) == XNum(0, <<1>>, k)
XMul(x, y) == XNum((x.s + y.s) % 2, BigMul(x.m, y.m), x.e + y.e)
XNeg(x) == XNum(1 - x.s, x.m, x.e)
XAbs(x) == XNum(0, x.m, x.e)

XAddAligned(sx, a, sy, b, e) ==
    IF sx = sy THEN XNum(sx, BigAdd(a, b), e)
    ELSE IF BigCmp[a, b] >= 0 THEN XNum(sx, BigSub(a, b), e)
    ELSE XNum(sy, BigSub(b, a), e)

XAdd(x, y) ==
    IF x.e >= y.e
    THEN XAddAligned(x.s, BigShl[x.m, x.e - y.e], y.s, y.m, y.e)
    ELSE XAddAligned(x.s, x.m, y.s, BigShl[y.m, y.e - x.e], x.e)

XSub(x, y) == XAdd(x, XNeg(y))
XSign(x) == IF x.m = <<>> THEN 0 ELSE IF x.s = 0 THEN 1 ELSE -1
XLe(x, y) == XSign(XSub(x, y)) <= 0
XLt(x, y) == XSign(XSub(x, y)) < 0
XMin(x, y) == IF XLe(x, y) THEN x ELSE y
XMax(x, y) == IF XLe(x, y) THEN y ELSE x

\* the rounding a few double operations in a row can add up to, relative to 1
Ulps == XPow2(-51)

(***************************************************************************)
(* CategoricalTransformer(column_name, k).  A training frame is a bag of   *)
(* rows <<category, interest_level>>; a frame given to transform is a      *)
(* sequence of rows, each a record of its columns.                         *)
(***************************************************************************)
Levels == {"high", "medium", "low"}

\* the model's encoders are built on column "manager_id", label-encoded (integers)
Categories == {1, 2, 3}

RECURSIVE SortedSeq(_)
SortedSeq(S) ==
    IF S = {} THEN <<>>
    ELSE LET x == CHOOSE x \in S : \A y \in S : x <= y
         IN  <<x>> \o SortedSeq(S \ {x})

RECURSIVE SumInt(_, _)
SumInt(f, n) == IF n = 0 THEN 0 ELSE SumInt(f, n - 1) + f[n]

CategoriesOf(X) == {p[1] : p \in BagToSet(X)}
LevelsOf(X) == {p[2] : p \in BagToSet(X)}

\* X.groupby([column, 'interest_level']).size().unstack().reset_index().fillna(0):
\* one row per category that has rows, in key order, a count per level
unstack_rows(X, cs) ==
    [i \in 1..Len(cs) |->
        [manager_id |-> cs[i],
         high   |-> CopiesIn(<<cs[i], "high">>, X),
         medium |-> CopiesIn(<<cs[i], "medium">>, X),
         low    |-> CopiesIn(<<cs[i], "low">>, X)]]

unstack(X) == unstack_rows(X, SortedSeq(CategoriesOf(X)))

\* unstack makes a column only of a level some row has: tmp['high'] + tmp['medium']
\* + tmp['low'] raises KeyError without all three
fit_raises(X) == ~ (Levels \subseteq LevelsOf(X))

record_count(r) == r.high + r.medium + r.low

\* math.exp raises OverflowError from 710 on
exp_raises(d) == d >= 710

\* the lambda column cannot be computed: math.exp raises on some row
lambda_raises(threshold, X) ==
    \E c \in CategoriesOf(X) :
        exp_raises(threshold - (CopiesIn(<<c, "high">>, X) + CopiesIn(<<c, "medium">>, X)
                                  + CopiesIn(<<c, "low">>, X)))

\* the difference the other way round: count - threshold
lambda_flipped(threshold, x) == FDiv[FOne, FAdd[FOne, Exp(x - threshold)]]

\* 1.0 / (1.0 + math.exp(self.threshold - x))
lambda(threshold, x) == FDiv[FOne, FAdd[FOne, Exp(threshold - x)]]

\* the global share with all of its weight
blend_sum(lam, share, glob) == FAdd[FMul[lam, share], glob]

\* the two weights the other way round
blend_swapped(lam, share, glob) == FAdd[FMul[lam, glob], FMul[FSub[FOne, lam], share]]

\* row['lambda']*row['high_share'] + (1.0-row['lambda'])*self.glob_high
blend(lam, share, glob) == FAdd[FMul[lam, share], FMul[FSub[FOne, lam], glob]]

\* the draw not centred: a factor in [1.0, 1.01)
jitter_uncentred(x, u) == FMul[x, FAdd[FOne, FMul[FHundredth, u]]]

\* x*(1.0 + 0.01*(np.random.uniform()-0.5)), u the value drawn
jitter(x, u) == FMul[x, FAdd[FOne, FMul[FHundredth, FSub[u, FHalf]]]]

\* tmp['high']/tmp['record_count'], tmp['high'].sum()/tmp['record_count'].sum()
share(a, n) == FDiv[FInt[a], FInt[n]]

\* one row of tmp at line 91: counts, shares, weight and the two blended values
blended_row(r, n, hs, ms, lam, gh, gm) ==
    [manager_id   |-> r.manager_id,
     record_count |-> n,
     high_share   |-> hs,
     med_share    |-> ms,
     lambda       |-> lam,
     b_high       |-> blend(lam, hs, gh),
     b_med        |-> blend(lam, ms, gm)]

blended_rows(threshold, t, gh, gm) ==
    [glob_high |-> gh,
     glob_med  |-> gm,
     rows |-> [i \in 1..Len(t) |->
                 blended_row(t[i], record_count(t[i]),
                             share(t[i].high, record_count(t[i])),
                             share(t[i].medium, record_count(t[i])),
                             lambda(threshold, record_count(t[i])), gh, gm)]]

\* the columns unstack made hold integers: no category lacks a level, so no NaN
\* turned a column to floats before fillna(0)
int_columns(t) == \A i \in 1..Len(t) : t[i].high > 0 /\ t[i].medium > 0 /\ t[i].low > 0

\* tmp[level].sum()/tmp['record_count'].sum(): two numpy scalars.  Python 2, which
\* the script is written for (line 120), divides two integers to the integer below
\* the quotient; true division otherwise.
glob_share(py, t, level, tot) ==
    IF py = 2 /\ int_columns(t)
    THEN FInt[SumInt([i \in 1..Len(t) |-> t[i][level]], Len(t)) \div tot]
    ELSE share(SumInt([i \in 1..Len(t) |-> t[i][level]], Len(t)), tot)

glob_shares(py, threshold, t, tot) ==
    blended_rows(threshold, t, glob_share(py, t, "high", tot),
                 glob_share(py, t, "medium", tot))

\* tmp at line 91, with the global shares of lines 77 and 78
blended(py, threshold, X) ==
    glob_shares(py, threshold, unstack(X),
                SumInt([i \in 1..Len(unstack(X)) |-> record_count(unstack(X)[i])],
                       Len(unstack(X))))

\* the global shares alone (lines 77 and 78), which a fit that raises at line 81 has set
globs(py, X) ==
    [glob_high |-> glob_share(py, unstack(X), "high",
                     SumInt([i \in 1..Len(unstack(X)) |-> record_count(unstack(X)[i])],
                            Len(unstack(X)))),
     glob_med  |-> glob_share(py, unstack(X), "medium",
                     SumInt([i \in 1..Len(unstack(X)) |-> record_count(unstack(X)[i])],
                            Len(unstack(X))))]

(***************************************************************************)
(* Bounds of the model and the inputs drawn within them.                   *)
(***************************************************************************)
\* rows per level of the large category: its count is 2 * BigCount
BigCount == 21
\* rows of a frame given to transform
MaxRows == 2

\* the k an encoder is built with
Thresholds == {5, 800}

\* the rows of one category: h high, m medium, l low
CatRows(c, h, m, l) ==
    LET cnt == [lv \in Levels |-> IF lv = "high" THEN h ELSE IF lv = "medium" THEN m ELSE l]
    IN  [p \in {<<c, lv>> : lv \in {x \in Levels : cnt[x] > 0}} |-> cnt[p[2]]]

TrainFrames ==
    { CatRows(1, 1, 1, 1),                                  \* one category, 3 rows
      CatRows(1, 2, 2, 1),                                  \* one category, 5 rows
      CatRows(2, 3, 2, 2),                                  \* another category, 7 rows
      CatRows(1, 2, 2, 1) @@ CatRows(2, 0, BigCount, BigCount),  \* a large category with no high row
      CatRows(1, 1, 1, 0),                                  \* no low row at all
      CatRows(2, 0, 1, 1) }                                 \* no high row at all

\* values np.random.uniform() can return: [0, 1) in steps of 2^-53
UMax == FRound[0, BigSub(BigShl[<<1>>, 53], <<1>>), -53]
Draws == {FZero, UMax}

TransformFrames ==
    UNION { { [i \in 1..n |-> [manager_id |-> cs[i], listing_id |-> i]] :
                cs \in [1..n -> Categories] } : n \in 0..MaxRows }

(***************************************************************************)
(* The encoder object and its methods.                                     *)
(***************************************************************************)
\* __init__: threshold set, no fitted attribute yet (attrs lists the fitted
\* attributes the object has)
CategoricalTransformer(k) ==
    [threshold |-> k,
     attrs     |-> {},
     mapping_  |-> [kind |-> "unset", rows |-> <<>>],
     glob_high |-> FZero,
     glob_med  |-> FZero,
     glob_low  |-> FZero]

\* nothing reset
_reset_skipped(self) == self

_reset(self) ==
    IF "mapping_" \in self.attrs
    THEN [self EXCEPT !.mapping_ = [kind |-> "dict", rows |-> <<>>],
                      !.glob_med = FZero, !.glob_high = FZero, !.glob_low = FZero,
                      !.attrs = @ \cup {"glob_med", "glob_high", "glob_low"}]
    ELSE self

\* the frames fit gets through on, their blended frames and the jittered values of
\* these frames' entries, tabulated (@@ makes TLC build a table once, as a whole)
Pythons == {2, 3}
FitCases ==
    {c \in Pythons \X Thresholds \X TrainFrames :
        ~ fit_raises(c[3]) /\ ~ lambda_raises(c[2], c[3])}
blendedOf == [c \in FitCases |-> blended(c[1], c[2], c[3])] @@ <<>>
RowValues(b) == UNION { {b.rows[i].b_high, b.rows[i].b_med} : i \in 1..Len(b.rows) }
BlendedValues == UNION { RowValues(blendedOf[c]) : c \in FitCases }
jitterOf == [x \in BlendedValues, u \in Draws |-> jitter(x, u)] @@ <<>>

\* lines 93-96: the two jittered columns, u_high and u_med the values drawn for the row
jittered_row(r, u_high, u_med) ==
    r @@ [u_high |-> u_high,
          u_med  |-> u_med,
          w_high_manager_id |-> jitterOf[r.b_high, u_high],
          w_med_manager_id  |-> jitterOf[r.b_med, u_med]]

\* the w_high column draws for every row first, the w_med column after it
jittered(b, us) ==
    [i \in 1..Len(b.rows) |-> jittered_row(b.rows[i], us[i], us[Len(b.rows) + i])]

\* lines 98-99: tmp[['w_high_' + column, 'w_med_' + column, column]]
mapping_of(t) ==
    [kind |-> "frame",
     rows |-> [i \in 1..Len(t) |->
                 [w_high_manager_id |-> t[i].w_high_manager_id,
                  w_med_manager_id  |-> t[i].w_med_manager_id,
                  manager_id        |-> t[i].manager_id]]]

fit_returns(s0, b, t) ==
    [self |-> [s0 EXCEPT !.glob_high = b.glob_high,
                         !.glob_med  = b.glob_med,
                         !.mapping_  = mapping_of(t),
                         !.attrs = @ \cup {"glob_high", "glob_med", "mapping_"}],
     raised |-> FALSE,
     tmp    |-> t,
     ndraws |-> 2 * Len(t)]

\* OverflowError at line 81: the global shares of lines 77-78 are set, no mapping is
fit_overflows(s0, g) ==
    [self |-> [s0 EXCEPT !.glob_high = g.glob_high,
                         !.glob_med  = g.glob_med,
                         !.attrs = @ \cup {"glob_high", "glob_med"}],
     raised |-> TRUE,
     tmp    |-> <<>>,
     ndraws |-> 0]

\* fit(X) under Python 2 or 3, with us the values np.random.uniform() returns, in call
\* order: the object after the call, whether it raised, the local frame tmp and the draws made
fit(py, self, X, us) ==
    IF fit_raises(X)
    THEN [self |-> _reset(self), raised |-> TRUE, tmp |-> <<>>, ndraws |-> 0]
    ELSE IF lambda_raises(self.threshold, X)
    THEN fit_overflows(_reset(self), globs(py, X))
    ELSE fit_returns(_reset(self), blendedOf[<<py, self.threshold, X>>],
                     jittered(blendedOf[<<py, self.threshold, X>>], us))

\* the draws a fit on X makes
fit_draws(self, X) ==
    IF fit_raises(X) \/ lambda_raises(self.threshold, X) THEN 0
    ELSE 2 * Cardinality(CategoriesOf(X))

\* del X['index']
DropColumn(r, c) == [k \in DOMAIN r \ {c} |-> r[k]]

\* how='inner': a left row with no right row is dropped
merge_row_inner(r, hits) == [j \in 1..Len(hits) |-> r @@ hits[j]]

\* X.merge(right, how='left', left_on=key, right_on=key): for each left row in order,
\* one row per right row with its key, or one row with NaN in right's columns
merge_row(r, hits) ==
    IF hits = <<>>
    THEN << r @@ [index |-> NaN, w_high_manager_id |-> NaN, w_med_manager_id |-> NaN] >>
    ELSE [j \in 1..Len(hits) |-> r @@ hits[j]]

RECURSIVE merge_left(_, _)
merge_left(X, right) ==
    IF X = <<>> THEN <<>>
    ELSE merge_row(Head(X), SelectSeq(right, LAMBDA q : q.manager_id = Head(X).manager_id))
         \o merge_left(Tail(X), right)

\* self.mapping_.reset_index(): the row labels 0, 1, ... become the column 'index'
reset_index(m) == [i \in 1..Len(m) |-> m[i] @@ [index |-> FInt[i - 1]]]

\* the missing values filled with 0
fillna_zero(x, glob) == IF x.nan THEN FZero ELSE x

\* x if not np.isnan(x) else glob
fillna(x, glob) == IF x.nan THEN glob ELSE x

transform_rows(self, merged) ==
    [i \in 1..Len(merged) |->
        [DropColumn(merged[i], "index") EXCEPT
            !.w_high_manager_id = fillna(@, self.glob_high),
            !.w_med_manager_id  = fillna(@, self.glob_med)]]

\* transform resetting the object after the merge
transform_resets(self, X) ==
    IF self.mapping_.kind # "frame"
    THEN [self |-> self, raised |-> TRUE, ret |-> <<>>, ndraws |-> 0]
    ELSE [self |-> _reset(self),
          raised |-> FALSE,
          ret |-> transform_rows(self, merge_left(X, reset_index(self.mapping_.rows))),
          ndraws |-> 0]

transform(self, X) ==
    IF self.mapping_.kind # "frame"
    THEN \* AttributeError: no mapping_ attribute, or {}.reset_index
         [self |-> self, raised |-> TRUE, ret |-> <<>>, ndraws |-> 0]
    ELSE [self |-> self,
          raised |-> FALSE,
          ret |-> transform_rows(self, merge_left(X, reset_index(self.mapping_.rows))),
          ndraws |-> 0]


(***************************************************************************)
(* ManagerSkill (lines 21-51).  X is a sequence of rows, each with its     *)
(* index label and its manager_id; y is the array of class codes in row    *)
(* order, as line 388 makes it: it has positions and no labels.            *)
(***************************************************************************)
MaxSkillRows == 2
SkillThresholds == {1, 2}
Managers == {1, 2}
Classes == {0, 1, 2}

\* the index labels of a frame of n rows: 0..n-1 in order, as a frame made in memory
\* has them, or in another order or past n-1, as a frame cut out of a larger one has
Indexes(n) == {[i \in 1..n |-> i - 1], [i \in 1..n |-> n - i], [i \in 1..n |-> i]}

SkillFrame(ids, idx) == [i \in 1..Len(ids) |-> [index |-> idx[i], manager_id |-> ids[i]]]

NonDecreasing(ids) == \A i \in 1..(Len(ids) - 1) : ids[i] <= ids[i + 1]

SmallSkillData ==
    UNION { { [X |-> SkillFrame(ids, idx), y |-> y] :
                ids \in {s \in [1..n -> Managers] : NonDecreasing(s)},
                idx \in Indexes(n),
                y \in [1..n -> Classes] } : n \in 1..MaxSkillRows }

\* one manager with two listings and one with one
MixedSkillData ==
    { [X |-> SkillFrame(<<1, 1, 2>>, idx), y |-> y] :
        idx \in Indexes(3), y \in {<<0, 1, 2>>, <<0, 0, 1>>, <<1, 2, 0>>} }

SkillData == SmallSkillData \cup MixedSkillData

SkillInputs ==
    { SkillFrame(ids, [i \in 1..Len(ids) |-> i - 1]) : ids \in {<<1>>, <<2>>, <<3>>, <<3, 2, 1>>} }

\* __init__
ManagerSkill(k) ==
    [threshold   |-> k,
     attrs       |-> {},
     mapping_    |-> [kind |-> "unset", rows |-> <<>>],
     mean_skill_ |-> FZero]

ManagerSkill_reset(self) ==
    IF "mapping_" \in self.attrs
    THEN [self EXCEPT !.mapping_ = [kind |-> "dict", rows |-> <<>>],
                      !.mean_skill_ = FZero,
                      !.attrs = @ \cup {"mean_skill_"}]
    ELSE self

ManagersOf(X) == {X[i].manager_id : i \in 1..Len(X)}
RowsOf(X, m) == {i \in 1..Len(X) : X[i].manager_id = m}

\* pd.concat([X.manager_id, pd.get_dummies(y)], axis = 1) puts side by side the rows
\* with the same index label, and the dummies of y carry the labels 0..len(y)-1: the
\* row of X with label l is given the dummies of y[l], or NaN when y has no such label
Labelled(X, y, m) == {i \in RowsOf(X, m) : X[i].index + 1 \in 1..Len(y)}

\* groupby('manager_id').mean() of the dummy column of a class: NaN values left out
dummy_mean(X, y, m, class) ==
    IF Labelled(X, y, m) = {} THEN NaN
    ELSE share(Cardinality({i \in Labelled(X, y, m) : y[X[i].index + 1] = class}),
               Cardinality(Labelled(X, y, m)))

\* temp['high_frac']*2 + temp['medium_frac']
manager_skill(high_frac, medium_frac) == FAdd[FMul[high_frac, FInt[2]], medium_frac]

\* Series.mean(): the values that are not NaN added up in order, over their number
RECURSIVE FSum(_)
FSum(xs) == IF xs = <<>> THEN FZero ELSE FAdd[FSum(SubSeq(xs, 1, Len(xs) - 1)), xs[Len(xs)]]

Series_mean(xs) ==
    IF SelectSeq(xs, LAMBDA x : ~ x.nan) = <<>> THEN NaN
    ELSE FDiv[FSum(SelectSeq(xs, LAMBDA x : ~ x.nan)),
              FInt[Len(SelectSeq(xs, LAMBDA x : ~ x.nan))]]

\* temp at line 39, one row per manager of X in key order
temp_rows(X, y, ms) ==
    [j \in 1..Len(ms) |->
        [manager_id    |-> ms[j],
         count         |-> Cardinality(RowsOf(X, ms[j])),
         manager_skill |-> manager_skill(dummy_mean(X, y, ms[j], 0),
                                         dummy_mean(X, y, ms[j], 1))]]

skills_from(threshold, temp) ==
    [j \in 1..Len(SelectSeq(temp, LAMBDA r : r.count >= threshold)) |->
        SelectSeq(temp, LAMBDA r : r.count >= threshold)[j].manager_skill]

\* lines 41-44
skill_mapping(threshold, temp, mean) ==
    [mean |-> mean,
     rows |-> [j \in 1..Len(temp) |->
                 [manager_id    |-> temp[j].manager_id,
                  manager_skill |-> IF temp[j].count < threshold THEN mean
                                    ELSE temp[j].manager_skill]]]

skill_fitted(threshold, temp) ==
    skill_mapping(threshold, temp, Series_mean(skills_from(threshold, temp)))

\* get_dummies(y) has a column for each class y holds: temp['high_frac'] or
\* temp['medium_frac'] is a KeyError when y holds no 0 or no 1
skill_fit_raises(y) == \E class \in {0, 1} : \A i \in 1..Len(y) : y[i] # class

SkillCases == {c \in SkillThresholds \X SkillData : ~ skill_fit_raises(c[2].y)}
skillOf ==
    [c \in SkillCases |->
        skill_fitted(c[1], temp_rows(c[2].X, c[2].y, SortedSeq(ManagersOf(c[2].X))))] @@ <<>>

ManagerSkill_fitted(s0, f) ==
    [self |-> [s0 EXCEPT !.mapping_ = [kind |-> "frame", rows |-> f.rows],
                         !.mean_skill_ = f.mean,
                         !.attrs = @ \cup {"mapping_", "mean_skill_"}],
     raised |-> FALSE]

ManagerSkill_fit(self, d) ==
    IF skill_fit_raises(d.y)
    THEN [self |-> ManagerSkill_reset(self), raised |-> TRUE]
    ELSE ManagerSkill_fitted(ManagerSkill_reset(self), skillOf[<<self.threshold, d>>])

\* the mapped skill of a manager, NaN for a manager mapping_ has no row of
mapped_skill(rows, m) ==
    IF SelectSeq(rows, LAMBDA r : r.manager_id = m) = <<>> THEN NaN
    ELSE SelectSeq(rows, LAMBDA r : r.manager_id = m)[1].manager_skill

\* X['manager_skill'].fillna(self.mean_skill_)
skill_fillna(x, mean) == IF x.nan THEN mean ELSE x

\* transform(X): mapping_ has to be a frame for pd.merge
ManagerSkill_transform(self, X) ==
    IF self.mapping_.kind # "frame"
    THEN [raised |-> TRUE, ret |-> <<>>]
    ELSE [raised |-> FALSE,
          ret |-> [i \in 1..Len(X) |->
                     [index         |-> X[i].index,
                      manager_skill |-> skill_fillna(mapped_skill(self.mapping_.rows,
                                                                  X[i].manager_id),
                                                     self.mean_skill_)]]]

(***************************************************************************)
(* The script's last section (lines 435-455), runXGB (173-203) and         *)
(* create_submission (156-171).                                            *)
(***************************************************************************)
MaxClock == 4
ScoreUnits == {54321, 54325, 54375, 120000}
Scores == {FDiv[FInt[k], FInt[100000]] : k \in ScoreUnits}

BigToInt[a \in Big] == IF a = <<>> THEN 0 ELSE a[1] + Base * BigToInt[Tail(a)]

\* n / 2^sh to the nearest natural, ties to even
RoundShr[n \in Big, sh \in Nat, q \in Big] ==
    IF sh = 0 THEN n
    ELSE IF BigCmp[BigSub(n, BigShl[q, sh]), BigShl[<<1>>, sh - 1]] > 0
            \/ (BigCmp[BigSub(n, BigShl[q, sh]), BigShl[<<1>>, sh - 1]] = 0 /\ BigIsOdd(q))
         THEN BigAdd(q, <<1>>)
         ELSE q

\* "{:0.4f}".format(score), 0 <= score: the decimal of four places nearest to the
\* double, as its number of ten-thousandths
format4(score) ==
    IF score.m = <<>> THEN 0
    ELSE IF score.e >= 0 THEN BigToInt[BigShl[BigMulSmall[score.m, 10000], score.e]]
    ELSE BigToInt[RoundShr[BigMulSmall[score.m, 10000], 0 - score.e,
                           BigShr[BigMulSmall[score.m, 10000], 0 - score.e]]]

\* now.strftime("%Y-%m-%d-%H%M"): the seconds are left out
strftime(clock) == clock.minute

\* the clock half a minute on
tick(clock) ==
    IF clock.second = 0 THEN [clock EXCEPT !.second = 30]
    ELSE [minute |-> clock.minute + 1, second |-> 0]

scrstr(score, clock) == [score |-> format4(score), stamp |-> strftime(clock)]

file_name(head, s, ext) == [dir |-> "../output/", head |-> head, scrstr |-> s, ext |-> ext]

\* a file written: what was there under the name is gone
written(fs, name, holds) == {f \in fs : f.name # name} \cup {[name |-> name, holds |-> holds]}

\* create_submission(score, pred, model, importance), clock what line 162 read
create_submission(score, clock, fs) ==
    written(written(fs, file_name(".model_", scrstr(score, clock), ".model"), "model"),
            file_name("submit_", scrstr(score, clock), ".csv"), "pred")

\* runXGB with test_y: early stopping on the watchlist's last entry, the held-out
\* rows, sets best_score to the best of their scores
Booster_early_stopped(score) ==
    [kind |-> "booster", attrs |-> {"best_score", "best_iteration"},
     best_score |-> score, scored_on |-> "test"]

\* runXGB without test_y: no early stopping and no held-out rows.  xgboost sets
\* best_score for early stopping; a build that set it regardless would have the
\* training rows' score to give, the watchlist holding nothing else
Booster_plain == [kind |-> "booster", attrs |-> {"best_iteration"},
                  best_score |-> NaN, scored_on |-> "train"]
Booster_train_scored(score) ==
    [kind |-> "booster", attrs |-> {"best_score", "best_iteration"},
     best_score |-> score, scored_on |-> "train"]
(***************************************************************************)
(* The state.  Each specification below drives one part of the program     *)
(* and leaves the variables of the other parts as Init set them.           *)
(***************************************************************************)
VARIABLES
    python,  \* the major version of the interpreter: 2 or 3
    enc,     \* the CategoricalTransformer object
    tmp,     \* fit's local frame of the last fit that returned
    train,   \* the frame given to the last fit call
    prev,    \* the categories mapping_ held when the last fit was called
    Xin,     \* the frame given to the last call, when it was transform
    out,     \* the frame it returned
    op,      \* the last call and how it ended
    ndraws,  \* the np.random.uniform() calls it made
    args,    \* the arguments of a function applied on its own
    res,     \* what it returned
    old,     \* what it returned for the smaller count, once the count has grown
    skill,   \* the ManagerSkill object
    fitted,  \* X and y of its last fit call
    asked,   \* the frame given to its last call, when it was transform
    skills,  \* the frame that call returned
    call,    \* its last call and how it ended
    pc,      \* where the script is
    Validation,  \* the flag of line 435
    now,     \* the clock
    model,   \* the booster runXGB returned
    files    \* the files in ../output/

encVars == <<python, enc, tmp, train, prev, Xin, out, op, ndraws>>
funVars == <<args, res, old>>
skillVars == <<skill, fitted, asked, skills, call>>
scriptVars == <<pc, Validation, now, model, files>>
vars == <<python, enc, tmp, train, prev, Xin, out, op, ndraws, args, res, old,
          skill, fitted, asked, skills, call, pc, Validation, now, model, files>>

None == [kind |-> "none"]

NoEncoder ==
    /\ python = 2
    /\ enc = None
    /\ tmp = <<>>
    /\ train = <<>>
    /\ prev = {}
    /\ Xin = <<>>
    /\ out = <<>>
    /\ op = "none"
    /\ ndraws = 0

NoFunction ==
    /\ args = None
    /\ res = None
    /\ old = None

NoSkill ==
    /\ skill = None
    /\ fitted = None
    /\ asked = <<>>
    /\ skills = <<>>
    /\ call = "none"

NoScript ==
    /\ pc = "none"
    /\ Validation = TRUE
    /\ now = [minute |-> 0, second |-> 0]
    /\ model = None
    /\ files = {}

(***************************************************************************)
(* Spec: one CategoricalTransformer, fitted and applied in any order.      *)
(***************************************************************************)
MappedCategories(self) == {self.mapping_.rows[i].manager_id : i \in 1..Len(self.mapping_.rows)}

Init ==
    /\ python \in Pythons
    /\ enc \in {CategoricalTransformer(k) : k \in Thresholds}
    /\ tmp = <<>>
    /\ train = <<>>
    /\ prev = {}
    /\ Xin = <<>>
    /\ out = <<>>
    /\ op = "new"
    /\ ndraws = 0
    /\ NoFunction
    /\ NoSkill
    /\ NoScript

FitCall(X, r) ==
    /\ enc' = r.self
    /\ tmp' = r.tmp
    /\ train' = X
    /\ prev' = MappedCategories(enc)
    /\ op' = IF r.raised THEN "fit_raised" ELSE "fit"
    /\ ndraws' = r.ndraws
    /\ Xin' = <<>>
    /\ out' = <<>>
    /\ UNCHANGED python
    /\ UNCHANGED <<funVars, skillVars, scriptVars>>

Fit ==
    \E X \in TrainFrames :
    \E us \in [1..fit_draws(enc, X) -> Draws] :
        FitCall(X, fit(python, enc, X, us))

TransformCall(X, r) ==
    /\ enc' = r.self
    /\ Xin' = X
    /\ out' = r.ret
    /\ op' = IF r.raised THEN "transform_raised" ELSE "transform"
    /\ ndraws' = r.ndraws
    /\ UNCHANGED <<python, tmp, train, prev>>
    /\ UNCHANGED <<funVars, skillVars, scriptVars>>

Transform ==
    \E X \in TransformFrames :
        TransformCall(X, transform(enc, X))

Next == Fit \/ Transform

Spec == Init /\ [][Next]_vars

(***************************************************************************)
(* SpecLambda: the weight of line 81 applied to two counts of one encoder. *)
(***************************************************************************)
\* the largest record count
MaxCount == 45

LambdaThresholds == {5, 40, 800}

LambdaArgs ==
    {a \in [threshold : LambdaThresholds, n : 1..MaxCount, m : 1..MaxCount] : a.n < a.m}

\* tmp['record_count'].apply(lambda x: ...) on the rows n and m
apply_lambda(threshold, n, m) ==
    IF exp_raises(threshold - n) \/ exp_raises(threshold - m)
    THEN [kind |-> "raised"]
    ELSE [kind |-> "lambda", lam_n |-> lambda(threshold, n), lam_m |-> lambda(threshold, m)]

InitLambda ==
    /\ NoEncoder
    /\ NoSkill
    /\ NoScript
    /\ args \in LambdaArgs
    /\ res = None
    /\ old = None

ApplyLambda ==
    /\ res = None
    /\ res' = apply_lambda(args.threshold, args.n, args.m)
    /\ UNCHANGED <<args, old>>
    /\ UNCHANGED <<encVars, skillVars, scriptVars>>

NextLambda == ApplyLambda

SpecLambda == InitLambda /\ [][NextLambda]_vars

(***************************************************************************)
(* SpecBlend: lines 74-96 for one category: its share, weight, blended and *)
(* stored value, and the same again once the category has grown with its   *)
(* share and the global share as they were.                                *)
(***************************************************************************)
\* the largest count of a category before it grows
MaxN == 6

BlendThresholds == {5}

\* global shares, as rows of the level over rows in all; <<0, 1>> is what Python 2
\* makes of a frame in which every category has every level
GlobShares == {<<1, 3>>, <<2, 5>>, <<0, 1>>}

\* the factors a category grows by
Growth == {2, 9}

JitterDraws == {FZero, FHalf, UMax}

BlendArgs ==
    {a \in [threshold : BlendThresholds, n : 1..MaxN, h : 0..MaxN, glob : GlobShares] :
        /\ a.h <= a.n
        /\ a.glob[1] = 0 => (a.h >= 1 /\ a.n - a.h >= 2)}

\* one column of one row through lines 74-96, u the value np.random.uniform() returns
blend_jitter(n, s, lam, g, b, u) ==
    [kind |-> "row", record_count |-> n, share |-> s, lambda |-> lam, glob |-> g,
     b |-> b, u |-> u, w |-> jitter(b, u)]

blend_value(n, s, lam, g, u) == blend_jitter(n, s, lam, g, blend(lam, s, g), u)

blend_row(threshold, n, h, glob, u) ==
    blend_value(n, share(h, n), lambda(threshold, n), share(glob[1], glob[2]), u)

InitBlend ==
    /\ NoEncoder
    /\ NoSkill
    /\ NoScript
    /\ args \in BlendArgs
    /\ res = None
    /\ old = None

Blend ==
    /\ res = None
    /\ \E u \in JitterDraws :
          res' = blend_row(args.threshold, args.n, args.h, args.glob, u)
    /\ UNCHANGED <<args, old>>
    /\ UNCHANGED <<encVars, skillVars, scriptVars>>

Grow ==
    /\ res # None
    /\ args.n <= MaxN
    /\ \E c \in Growth : \E u \in JitterDraws :
          /\ args' = [args EXCEPT !.n = c * @, !.h = c * @]
          /\ res' = blend_row(args.threshold, c * args.n, c * args.h, args.glob, u)
    /\ old' = res
    /\ UNCHANGED <<encVars, skillVars, scriptVars>>

NextBlend == Blend \/ Grow

SpecBlend == InitBlend /\ [][NextBlend]_vars

(***************************************************************************)
(* SpecSkill: one ManagerSkill, fitted and applied in any order.           *)
(***************************************************************************)
InitSkill ==
    /\ skill \in {ManagerSkill(k) : k \in SkillThresholds}
    /\ fitted = None
    /\ asked = <<>>
    /\ skills = <<>>
    /\ call = "new"
    /\ NoEncoder
    /\ NoFunction
    /\ NoScript

SkillFitCall(d, r) ==
    /\ skill' = r.self
    /\ fitted' = d
    /\ asked' = <<>>
    /\ skills' = <<>>
    /\ call' = IF r.raised THEN "fit_raised" ELSE "fit"
    /\ UNCHANGED <<encVars, funVars, scriptVars>>

SkillFit == \E d \in SkillData : SkillFitCall(d, ManagerSkill_fit(skill, d))

SkillTransformCall(X, r) ==
    /\ asked' = X
    /\ skills' = r.ret
    /\ call' = IF r.raised THEN "transform_raised" ELSE "transform"
    /\ UNCHANGED <<skill, fitted>>
    /\ UNCHANGED <<encVars, funVars, scriptVars>>

SkillTransform == \E X \in SkillInputs : SkillTransformCall(X, ManagerSkill_transform(skill, X))

NextSkill == SkillFit \/ SkillTransform

SpecSkill == InitSkill /\ [][NextSkill]_vars

(***************************************************************************)
(* SpecScript: the script from line 435 on.  Validation is True at line    *)
(* 435; the else branch is what the script does with the flag set to       *)
(* False by hand.                                                          *)
(***************************************************************************)
InitScript ==
    /\ pc = "line 435"
    /\ Validation \in BOOLEAN
    /\ now = [minute |-> 0, second |-> 0]
    /\ model = None
    /\ files = {}
    /\ NoEncoder
    /\ NoFunction
    /\ NoSkill

Running == pc \in {"line 435", "line 443", "line 449", "line 455"}

\* time passes while the script runs
Tick ==
    /\ Running
    /\ now.minute < MaxClock
    /\ now' = tick(now)
    /\ UNCHANGED <<pc, Validation, model, files>>
    /\ UNCHANGED <<encVars, funVars, skillVars>>

\* lines 438-441: the split and the pipeline on its two parts
SplitAndFit ==
    /\ pc = "line 435"
    /\ Validation
    /\ pc' = "line 443"
    /\ UNCHANGED <<Validation, now, model, files>>
    /\ UNCHANGED <<encVars, funVars, skillVars>>

\* line 443: runXGB with the held-out rows; the script ends
TrainWithValidation ==
    /\ pc = "line 443"
    /\ \E score \in Scores : model' = Booster_early_stopped(score)
    /\ pc' = "done"
    /\ UNCHANGED <<Validation, now, files>>
    /\ UNCHANGED <<encVars, funVars, skillVars>>

\* lines 446-447: the pipeline on all the training rows and on the test rows
FitAll ==
    /\ pc = "line 435"
    /\ ~ Validation
    /\ pc' = "line 449"
    /\ UNCHANGED <<Validation, now, model, files>>
    /\ UNCHANGED <<encVars, funVars, skillVars>>

\* lines 449-454: runXGB without held-out rows
TrainOnAll ==
    /\ pc = "line 449"
    /\ model' \in {Booster_plain} \cup {Booster_train_scored(score) : score \in Scores}
    /\ pc' = "line 455"
    /\ UNCHANGED <<Validation, now, files>>
    /\ UNCHANGED <<encVars, funVars, skillVars>>

\* line 455: model.best_score is an AttributeError
BestScoreRaises ==
    /\ pc = "line 455"
    /\ "best_score" \notin model.attrs
    /\ pc' = "raised"
    /\ UNCHANGED <<Validation, now, model, files>>
    /\ UNCHANGED <<encVars, funVars, skillVars>>

\* line 455: create_submission(model.best_score, out_df, model, None)
CreateSubmission ==
    /\ pc = "line 455"
    /\ "best_score" \in model.attrs
    /\ files' = create_submission(model.best_score, now, files)
    /\ pc' = "done"
    /\ UNCHANGED <<Validation, now, model>>
    /\ UNCHANGED <<encVars, funVars, skillVars>>

NextScript ==
    \/ Tick
    \/ SplitAndFit
    \/ TrainWithValidation
    \/ FitAll
    \/ TrainOnAll
    \/ BestScoreRaises
    \/ CreateSubmission

SpecScript == InitScript /\ [][NextScript]_vars

(***************************************************************************)
(* Claims about CategoricalTransformer, under Spec.                        *)
(***************************************************************************)
\* the rows of a training frame, and those of one level
Rows(X) == BagCardinality(X)
LevelRows(X, level) ==
    BagCardinality([p \in {q \in BagToSet(X) : q[2] = level} |-> X[p]])

\* the training frame's rows of a level over all its rows
TrueShare(X, level) == share(LevelRows(X, level), Rows(X))

\* the two sums of lines 77-78 are divided as numbers with a fraction: always by
\* Python 3, by Python 2 when some category lacks a level
TrueDivision(X) ==
    \/ python = 3
    \/ \E c \in CategoriesOf(X) : \E level \in Levels : CopiesIn(<<c, level>>, X) = 0

\* the values np.random.uniform() returned to the fit that made tmp, in call order
DrawsOf(t) ==
    [j \in 1..(2 * Len(t)) |-> IF j <= Len(t) THEN t[j].u_high ELSE t[j - Len(t)].u_med]

\* a new encoder with the same k, fitted on the frame of the last fit with the same draws
FreshFit == fit(python, CategoricalTransformer(enc.threshold), train, DrawsOf(tmp)).self

\* C1: after a fit, transform gives every row whose category the training frame did
\* not have the fitted glob_high and glob_med, with no jitter; these are what a fit
\* on the training frame alone sets: its rows of the level over all its rows (0 when
\* Python 2 divides two integer sums)
C1_UnseenGetGlobalShares ==
    op = "transform" =>
        /\ Len(out) = Len(Xin)
        /\ enc.glob_high = FreshFit.glob_high
        /\ enc.glob_med = FreshFit.glob_med
        /\ TrueDivision(train) =>
              /\ enc.glob_high = TrueShare(train, "high")
              /\ enc.glob_med = TrueShare(train, "medium")
        /\ ~ TrueDivision(train) => enc.glob_high = FZero /\ enc.glob_med = FZero
        /\ \A i \in 1..Len(Xin) :
              Xin[i].manager_id \notin CategoriesOf(train) =>
                  /\ out[i].manager_id = Xin[i].manager_id
                  /\ out[i].w_high_manager_id = enc.glob_high
                  /\ out[i].w_med_manager_id = enc.glob_med

C1_Witness ==
    /\ op = "transform"
    /\ \E i \in 1..Len(Xin) : Xin[i].manager_id \notin CategoriesOf(train)
    /\ \E i \in 1..Len(Xin) : Xin[i].manager_id \in CategoriesOf(train)

\* C5: after a fit that returned, whatever the object was fitted on before, the
\* mapping and the global shares are those a new encoder fitted on the same frame
\* has, and a transform returns what that encoder returns; after a fit that raised
\* no mapping is left
C5_OnlyLatestFit ==
    /\ op = "fit" =>
        /\ MappedCategories(enc) = CategoriesOf(train)
        /\ enc.mapping_ = FreshFit.mapping_
        /\ enc.glob_high = FreshFit.glob_high
        /\ enc.glob_med = FreshFit.glob_med
    /\ op = "transform" => out = transform(FreshFit, Xin).ret
    /\ op = "fit_raised" => enc.mapping_.kind # "frame" /\ MappedCategories(enc) = {}

C5_Witness ==
    /\ op = "fit"
    /\ prev # {}
    /\ ~ (prev \subseteq CategoriesOf(train))

\* w is b times a factor between 0.995 and 1.005, up to rounding
WithinJitter(b, w) ==
    /\ XLe(XMul(XMul(XInt(995), b), XSub(XInt(1), Ulps)), XMul(XInt(1000), w))
    /\ XLe(XMul(XInt(1000), w), XMul(XMul(XInt(1005), b), XAdd(XInt(1), Ulps)))

\* C7 (amended): each stored value is its blended value times a factor of its own
\* between 0.995 and 1.005 up to double rounding, so 0 stays 0; fit draws once for
\* each stored value, two draws a category, and transform draws nothing
C7_JitterWithinHalfPercentUpToRounding ==
    /\ op = "fit" =>
        /\ ndraws = 2 * Cardinality(CategoriesOf(train))
        /\ Len(tmp) = Len(enc.mapping_.rows)
        /\ \A i \in 1..Len(tmp) :
              /\ enc.mapping_.rows[i].w_high_manager_id = tmp[i].w_high_manager_id
              /\ enc.mapping_.rows[i].w_med_manager_id = tmp[i].w_med_manager_id
              /\ WithinJitter(tmp[i].b_high, tmp[i].w_high_manager_id)
              /\ WithinJitter(tmp[i].b_med, tmp[i].w_med_manager_id)
              /\ tmp[i].b_high = FZero => tmp[i].w_high_manager_id = FZero
              /\ tmp[i].b_med = FZero => tmp[i].w_med_manager_id = FZero
    /\ op \in {"transform", "transform_raised"} => ndraws = 0

C7_Witness ==
    /\ op = "fit"
    /\ \E i \in 1..Len(tmp) :
          /\ tmp[i].b_high = FZero
          /\ tmp[i].u_high = FZero
          /\ tmp[i].u_med = UMax

\* w is b times a factor in [0.995, 1.005): it differs from b by at most 0.5% of b
HalfPercent(b, w) ==
    /\ XLe(XMul(XInt(995), b), XMul(XInt(1000), w))
    /\ XLe(XMul(XInt(1000), w), XMul(XInt(1005), b))
    /\ XSign(b) > 0 => XLt(XMul(XInt(1000), w), XMul(XInt(1005), b))

\* C7 as claimed: each stored value is its blended value times a factor in
\* [0.995, 1.005) and differs from it by at most 0.5% of it
C7_JitterWithinHalfPercent ==
    op = "fit" =>
        \A i \in 1..Len(tmp) :
            /\ HalfPercent(tmp[i].b_high, tmp[i].w_high_manager_id)
            /\ HalfPercent(tmp[i].b_med, tmp[i].w_med_manager_id)

\* C9: a transform call leaves the object as it was and draws nothing, a second call
\* on the same frame returns the same frame, and rows of one category carry the
\* same two values
C9_TransformKeepsState ==
    [][ op' \in {"transform", "transform_raised"} =>
          /\ enc' = enc
          /\ ndraws' = 0
          /\ (op = "transform" /\ Xin' = Xin) => out' = out
          /\ \A i, j \in 1..Len(out') :
                out'[i].manager_id = out'[j].manager_id =>
                    /\ out'[i].w_high_manager_id = out'[j].w_high_manager_id
                    /\ out'[i].w_med_manager_id = out'[j].w_med_manager_id ]_vars

C9_Witness ==
    /\ op = "transform"
    /\ Len(out) >= 2
    /\ out[1].manager_id = out[2].manager_id
    /\ out[1].manager_id \in MappedCategories(enc)

\* C10: the mapping has one row for each category of the training frame, and
\* transform returns the rows it was given, in their order, each with its columns
\* as they were and the two w_ columns added, neither of them NaN
C10_OneRowPerCategory ==
    /\ op = "fit" =>
        /\ Len(enc.mapping_.rows) = Cardinality(CategoriesOf(train))
        /\ \A c \in CategoriesOf(train) :
              Cardinality({i \in 1..Len(enc.mapping_.rows) :
                              enc.mapping_.rows[i].manager_id = c}) = 1
    /\ op = "transform" =>
        /\ Len(out) = Len(Xin)
        /\ \A i \in 1..Len(Xin) :
              /\ DOMAIN out[i] = DOMAIN Xin[i] \cup {"w_high_manager_id", "w_med_manager_id"}
              /\ \A c \in DOMAIN Xin[i] : out[i][c] = Xin[i][c]
              /\ ~ out[i].w_high_manager_id.nan
              /\ ~ out[i].w_med_manager_id.nan

C10_Witness ==
    /\ op = "transform"
    /\ Len(Xin) >= 2
    /\ Cardinality(MappedCategories(enc)) >= 2
    /\ \E i \in 1..Len(Xin) : Xin[i].manager_id \notin MappedCategories(enc)

(***************************************************************************)
(* Claims about the weight (under SpecLambda) and about the blended and    *)
(* stored value of one category (under SpecBlend).                         *)
(***************************************************************************)
\* C2 (amended): for counts n < m the weight is above 0, never decreases and never
\* exceeds 1: 0 < lambda(n) <= lambda(m) <= 1; it increases while n - k <= 36 and is
\* 1.0 itself from m - k = 37 on; math.exp raises only from k - n = 710 on
C2_LambdaNonDecreasingIn01 ==
    /\ res.kind = "lambda" =>
        /\ XLt(XInt(0), res.lam_n)
        /\ XLe(res.lam_n, res.lam_m)
        /\ XLe(res.lam_m, XInt(1))
        /\ args.n - args.threshold <= 36 => XLt(res.lam_n, res.lam_m)
        /\ args.m - args.threshold <= 36 => XLt(res.lam_m, XInt(1))
        /\ args.m - args.threshold >= 37 => res.lam_m = FOne
    /\ res.kind = "raised" => args.threshold - args.n >= 710

C2_Witness ==
    /\ res.kind = "lambda"
    /\ args.n - args.threshold <= 36
    /\ args.m - args.threshold >= 37

\* C2 as claimed: for counts n < m, 0 < lambda(n) < lambda(m) < 1
C2_LambdaIncreasingInOpen01 ==
    res.kind = "lambda" =>
        /\ XLt(XInt(0), res.lam_n)
        /\ XLt(res.lam_n, res.lam_m)
        /\ XLt(res.lam_m, XInt(1))

\* |x - y|
Dist(x, y) == XAbs(XSub(x, y))

\* what the weight leaves of the way from the share to the global share
Gap(r) == XMul(XSub(XInt(1), r.lambda), Dist(r.glob, r.share))

\* C3 (amended): for a category with count >= threshold the stored value is within
\* (1 - lambda)*|global - share| + 0.5% of the blended value (+ 2^-49 of rounding) of
\* the raw share; as the count grows with both shares as they were, lambda does not
\* decrease, so this bound does not increase; from count - threshold = 37 on lambda
\* is 1.0 and the blended value is the raw share itself, the stored one its jitter
C3_StoredValueNearShare ==
    /\ (res.kind = "row" /\ res.record_count >= args.threshold) =>
        /\ XLe(XMul(XInt(200), Dist(res.w, res.share)),
               XAdd(XAdd(XMul(XInt(200), Gap(res)), res.b), XMul(XInt(200), XPow2(-49))))
        /\ res.record_count - args.threshold >= 37 =>
              res.lambda = FOne /\ res.b = res.share
    /\ (old.kind = "row" /\ old.record_count >= args.threshold) =>
        /\ res.share = old.share
        /\ res.glob = old.glob
        /\ XLe(old.lambda, res.lambda)
        /\ XLe(Gap(res), Gap(old))

C3_Witness ==
    /\ old.kind = "row"
    /\ old.record_count >= args.threshold
    /\ res.record_count - args.threshold >= 37
    /\ old.lambda # FOne
    /\ XLt(Dist(old.w, old.share), Dist(res.w, res.share))

\* C3 as claimed: when the count of a category with count >= threshold grows with
\* both shares as they were, the stored value is no further from the raw share
C3_StoredValueApproachesShare ==
    (old.kind = "row" /\ old.record_count >= args.threshold) =>
        XLe(Dist(res.w, res.share), Dist(old.w, old.share))

\* C4 (amended): the blended value lies between the category's share and the global
\* share up to double rounding (2^-51 of either); the weight is under 1/2 for a count
\* below the threshold, over 1/2 for one above, and 1/2 itself for one equal to it
C4_BlendBetweenUpToRounding ==
    res.kind = "row" =>
        /\ XLe(XMul(XMin(res.share, res.glob), XSub(XInt(1), Ulps)), res.b)
        /\ XLe(res.b, XMul(XMax(res.share, res.glob), XAdd(XInt(1), Ulps)))
        /\ res.record_count < args.threshold => XLt(res.lambda, FHalf)
        /\ res.record_count > args.threshold => XLt(FHalf, res.lambda)
        /\ res.record_count = args.threshold => res.lambda = FHalf

C4_Witness ==
    /\ res.kind = "row"
    /\ res.record_count < args.threshold
    /\ res.share = res.glob
    /\ res.b # res.share

\* C4 as claimed: the blended value lies between the two shares, and the weight is
\* under, over or equal to 1/2 as the count is below, above or equal to the threshold
C4_BlendBetween ==
    res.kind = "row" =>
        /\ XLe(XMin(res.share, res.glob), res.b)
        /\ XLe(res.b, XMax(res.share, res.glob))
        /\ res.record_count < args.threshold => XLt(res.lambda, FHalf)
        /\ res.record_count > args.threshold => XLt(FHalf, res.lambda)
        /\ res.record_count = args.threshold => res.lambda = FHalf

(***************************************************************************)
(* ManagerSkill against the listings' own labels.                          *)
(***************************************************************************)
\* the listings of manager m with class code class, over its listings: y[i] is the
\* label of X's i-th row
own_frac(X, y, m, class) ==
    share(Cardinality({i \in RowsOf(X, m) : y[i] = class}), Cardinality(RowsOf(X, m)))

own_skill(X, y, m) == manager_skill(own_frac(X, y, m, 0), own_frac(X, y, m, 1))

own_skills(threshold, X, y, ms) ==
    [j \in 1..Len(ms) |-> own_skill(X, y, ms[j])]

Frequent(threshold, X) == {m \in ManagersOf(X) : Cardinality(RowsOf(X, m)) >= threshold}

\* the skill the listings' labels give manager m
expected_skill(threshold, X, y, m) ==
    IF m \in Frequent(threshold, X) THEN own_skill(X, y, m)
    ELSE Series_mean(own_skills(threshold, X, y, SortedSeq(Frequent(threshold, X))))

\* C8: after a fit on X and y, transform gives a manager with at least threshold rows
\* in X the value 2*high_frac + medium_frac of its own rows' labels, and any other
\* manager the mean of these values over the managers with at least threshold rows
C8_SkillFromOwnListings ==
    call = "transform" =>
        /\ Len(skills) = Len(asked)
        /\ \A i \in 1..Len(asked) :
              skills[i].manager_skill =
                  expected_skill(skill.threshold, fitted.X, fitted.y, asked[i].manager_id)

\* the same for the frames whose index labels are 0..n-1 in row order
C8_AlignedIndex ==
    (call = "transform" /\ \A i \in 1..Len(fitted.X) : fitted.X[i].index = i - 1)
        => C8_SkillFromOwnListings

(***************************************************************************)
(* The script's output files.                                              *)
(***************************************************************************)
\* C6: when the script has ended, ../output/ holds a model file and a submission
\* file whose names carry one timestamp and one score, the score of the model on the
\* held-out rows
C6_OutputsNamedWithValidationScore ==
    pc \in {"done", "raised"} =>
        \E f \in files : \E g \in files :
            /\ f.holds = "model" /\ f.name.head = ".model_" /\ f.name.ext = ".model"
            /\ g.holds = "pred" /\ g.name.head = "submit_" /\ g.name.ext = ".csv"
            /\ f.name.scrstr = g.name.scrstr
            /\ "best_score" \in model.attrs
            /\ model.scored_on = "test"
            /\ f.name.scrstr.score = format4(model.best_score)

\* whenever create_submission has run, it has written both files under one
\* timestamp and one score
C6_BothFilesOneStamp ==
    files # {} =>
        \E f \in files : \E g \in files :
            /\ files = {f, g}
            /\ f.holds = "model" /\ f.name.head = ".model_" /\ f.name.ext = ".model"
            /\ g.holds = "pred" /\ g.name.head = "submit_" /\ g.name.ext = ".csv"
            /\ f.name.scrstr = g.name.scrstr
            /\ f.name.scrstr.stamp = now.minute
            /\ f.name.scrstr.score = format4(model.best_score)
====
